---------------------------- MODULE Spec2Model ----------------------------
(***************************************************************************)
(* A model of api/fastapi_guide.py: the module-level statements that build *)
(* the application (route and exception-handler registrations and the      *)
(* rebinding of the global dictionaries), then the handling of single      *)
(* requests: dispatch, binding and validation of the declared parameters,  *)
(* the route handler's body, response shaping and exception handling.      *)
(*                                                                         *)
(* Raw wire values (path segments, query values, JSON strings) are         *)
(* sequences of one-character strings, so that parsing them is computed.   *)
(* Python/JSON values are tagged tuples: <<"None">>, <<"str", s>>,         *)
(* <<"int", n>>, <<"bool", b>>, <<"dict", f>>, <<"model", cls, f, set>>.   *)
(***************************************************************************)
EXTENDS Integers, Sequences, FiniteSets, TLC

VARIABLES pc, routes, exception_handlers, items, fake_db,
          stage, request, errors, call, response

vars == <<pc, routes, exception_handlers, items, fake_db,
          stage, request, errors, call, response>>

(***************************************************************************)
(* Bounds of the model: the integers sent as the path parameter of         *)
(* PUT /items5/{item_id} range over -MaxBelow .. MaxItemId.                *)
(***************************************************************************)
MaxItemId == 1002

MaxBelow == 2

(***************************************************************************)
(* Values                                                                  *)
(***************************************************************************)
None == <<"None">>

PyStr(s) == <<"str", s>>

PyInt(n) == <<"int", n>>

PyBool(b) == <<"bool", b>>

PyDict(f) == <<"dict", f>>

PyModel(cls, f, set) == <<"model", cls, f, set>>

Tag(v) == v[1]

Val(v) == v[2]

EmptyDict == <<>>

\* dict.get(k): the value under k, None when k is no key
Get(f, k) == IF k \in DOMAIN f THEN f[k] ELSE None

\* Python truthiness of a value, as `if q:` and `if not short:` use it
Truthy(v) ==
    CASE Tag(v) = "None" -> FALSE
      [] Tag(v) = "str" -> Len(Val(v)) > 0
      [] Tag(v) = "text" -> Val(v) # ""
      [] Tag(v) = "float" -> Val(v) # 0
      [] Tag(v) = "int" -> Val(v) # 0
      [] Tag(v) = "bool" -> Val(v)
      [] Tag(v) = "dict" -> DOMAIN Val(v) # {}
      [] OTHER -> TRUE

(***************************************************************************)
(* Characters and literals                                                 *)
(***************************************************************************)
Digits == <<"0", "1", "2", "3", "4", "5", "6", "7", "8", "9">>

DigitSet == {Digits[i] : i \in 1..10}

DigitVal(c) == (CHOOSE i \in 1..10 : Digits[i] = c) - 1

UpperCase == <<"A", "B", "C", "D", "E", "F", "G", "H", "I", "J", "K", "L", "M",
               "N", "O", "P", "Q", "R", "S", "T", "U", "V", "W", "X", "Y", "Z">>

LowerCase == <<"a", "b", "c", "d", "e", "f", "g", "h", "i", "j", "k", "l", "m",
               "n", "o", "p", "q", "r", "s", "t", "u", "v", "w", "x", "y", "z">>

\* str.lower() on one character
LowerChar(c) ==
    IF \E i \in 1..26 : UpperCase[i] = c
    THEN LowerCase[CHOOSE i \in 1..26 : UpperCase[i] = c]
    ELSE c

\* str.lower()
Lower(s) == [i \in 1..Len(s) |-> LowerChar(s[i])]

\* int(s) accepts an optional sign followed by decimal digits
IsIntLiteral(s) ==
    LET body == IF Len(s) > 0 /\ s[1] \in {"-", "+"} THEN Tail(s) ELSE s
    IN  Len(body) > 0 /\ \A i \in 1..Len(body) : body[i] \in DigitSet

RECURSIVE DigitsValue(_)
DigitsValue(s) ==
    IF Len(s) = 0 THEN 0
    ELSE 10 * DigitsValue(SubSeq(s, 1, Len(s) - 1)) + DigitVal(s[Len(s)])

\* int(s) for an int literal s
IntValue(s) ==
    IF s[1] = "-" THEN 0 - DigitsValue(Tail(s))
    ELSE IF s[1] = "+" THEN DigitsValue(Tail(s))
    ELSE DigitsValue(s)

RECURSIVE NatChars(_)
NatChars(n) ==
    IF n < 10 THEN <<Digits[n + 1]>>
    ELSE NatChars(n \div 10) \o <<Digits[(n % 10) + 1]>>

\* str(n): the decimal literal a client sends for the integer n
IntChars(n) == IF n < 0 THEN <<"-">> \o NatChars(0 - n) ELSE NatChars(n)

\* n copies of the character c
Rep(c, n) == [i \in 1..n |-> c]


PyFloat(tenths) == <<"float", tenths>>

PyList(q) == <<"list", q>>

\* a string constant of the program, whose characters are never inspected
PyText(s) == <<"text", s>>

\* position of the first "." of s, 0 when it has none
DotAt(s) ==
    IF \E i \in 1..Len(s) : s[i] = "."
    THEN CHOOSE i \in 1..Len(s) : s[i] = "." /\ \A j \in 1..(i - 1) : s[j] # "."
    ELSE 0

\* float(s), for the decimal literals of the model: an int literal, or an
\* int literal followed by "." and one digit
IsFloatLiteral(s) ==
    \/ IsIntLiteral(s)
    \/ /\ DotAt(s) > 1
       /\ Len(s) = DotAt(s) + 1
       /\ IsIntLiteral(SubSeq(s, 1, DotAt(s) - 1))
       /\ s[Len(s)] \in DigitSet

\* the value of float(s) in tenths
FloatTenths(s) ==
    IF DotAt(s) = 0 THEN 10 * IntValue(s)
    ELSE LET whole == SubSeq(s, 1, DotAt(s) - 1)
             frac == DigitVal(s[Len(s)])
         IN  IF whole[1] = "-" THEN 10 * IntValue(whole) - frac
             ELSE 10 * IntValue(whole) + frac

(***************************************************************************)
(* Coercion of one wire value to a declared type (the validators of the    *)
(* validation library behind the annotations int, float, bool, str,        *)
(* EmailStr and List[str]).  A result is Ok(v) or Fail(kind, sub).         *)
(***************************************************************************)
Ok(v) == [ok |-> TRUE, v |-> v, kind |-> "", sub |-> ""]

Fail(kind, sub) == [ok |-> FALSE, v |-> None, kind |-> kind, sub |-> sub]

BOOL_TRUE == {<<"1">>, <<"o", "n">>, <<"t">>, <<"t", "r", "u", "e">>,
              <<"y">>, <<"y", "e", "s">>}

BOOL_FALSE == {<<"0">>, <<"o", "f", "f">>, <<"f">>,
               <<"f", "a", "l", "s", "e">>, <<"n">>, <<"n", "o">>}

\* bool_validator comparing the literal as written, without lowering it
bool_validator_case_sensitive(w) ==
    CASE Tag(w) = "bool" -> Ok(w)
      [] Tag(w) = "int" ->
            IF Val(w) = 1 THEN Ok(PyBool(TRUE))
            ELSE IF Val(w) = 0 THEN Ok(PyBool(FALSE))
            ELSE Fail("type_error", "bool")
      [] Tag(w) = "str" ->
            IF Val(w) \in BOOL_TRUE THEN Ok(PyBool(TRUE))
            ELSE IF Val(w) \in BOOL_FALSE THEN Ok(PyBool(FALSE))
            ELSE Fail("type_error", "bool")
      [] OTHER -> Fail("type_error", "bool")

bool_validator(w) ==
    CASE Tag(w) = "bool" -> Ok(w)
      [] Tag(w) = "int" ->
            IF Val(w) = 1 THEN Ok(PyBool(TRUE))
            ELSE IF Val(w) = 0 THEN Ok(PyBool(FALSE))
            ELSE Fail("type_error", "bool")
      [] Tag(w) = "str" ->
            IF Lower(Val(w)) \in BOOL_TRUE THEN Ok(PyBool(TRUE))
            ELSE IF Lower(Val(w)) \in BOOL_FALSE THEN Ok(PyBool(FALSE))
            ELSE Fail("type_error", "bool")
      [] OTHER -> Fail("type_error", "bool")

int_validator(w) ==
    CASE Tag(w) = "int" -> Ok(w)
      [] Tag(w) = "str" ->
            IF IsIntLiteral(Val(w)) THEN Ok(PyInt(IntValue(Val(w))))
            ELSE Fail("type_error", "integer")
      [] OTHER -> Fail("type_error", "integer")

float_validator(w) ==
    CASE Tag(w) = "float" -> Ok(w)
      [] Tag(w) = "int" -> Ok(PyFloat(10 * Val(w)))
      [] Tag(w) = "str" ->
            IF IsFloatLiteral(Val(w)) THEN Ok(PyFloat(FloatTenths(Val(w))))
            ELSE Fail("type_error", "float")
      [] OTHER -> Fail("type_error", "float")

str_validator(w) ==
    CASE Tag(w) \in {"str", "text"} -> Ok(w)
      [] Tag(w) = "int" -> Ok(PyStr(IntChars(Val(w))))
      [] OTHER -> Fail("type_error", "str")

\* an address has one "@", a non-empty local part and a dotted domain
IsEmail(s) ==
    \E i \in 2..(Len(s) - 1) :
        /\ s[i] = "@"
        /\ \A j \in 1..Len(s) : s[j] = "@" => j = i
        /\ \E k \in (i + 2)..(Len(s) - 1) : s[k] = "."

email_validator(w) ==
    IF Tag(w) # "str" THEN Fail("type_error", "str")
    ELSE IF IsEmail(Val(w)) THEN Ok(w)
    ELSE Fail("type_error", "email")

list_str_validator(w) ==
    IF Tag(w) = "list" /\ \A i \in 1..Len(Val(w)) : Tag(Val(w)[i]) = "str"
    THEN Ok(w)
    ELSE Fail("type_error", "list")

PyBytes(s) == <<"bytes", s>>

\* the parts of a multipart/form-data body: each name with its values, in
\* the order they were sent
PyForm(f) == <<"form", f>>

\* a str is encoded
bytes_validator(w) ==
    CASE Tag(w) = "bytes" -> Ok(w)
      [] Tag(w) = "str" -> Ok(PyBytes(Val(w)))
      [] OTHER -> Fail("type_error", "bytes")

list_bytes_validator(w) ==
    IF Tag(w) = "list"
       /\ \A i \in 1..Len(Val(w)) : Tag(Val(w)[i]) \in {"bytes", "str"}
    THEN Ok(PyList([i \in 1..Len(Val(w)) |-> PyBytes(Val(Val(w)[i]))]))
    ELSE Fail("type_error", "list")

Coerce(type, w) ==
    CASE type = "int" -> int_validator(w)
      [] type = "float" -> float_validator(w)
      [] type = "bool" -> bool_validator(w)
      [] type = "str" -> str_validator(w)
      [] type = "EmailStr" -> email_validator(w)
      [] type = "List[str]" -> list_str_validator(w)
      [] type = "bytes" -> bytes_validator(w)
      [] type = "List[bytes]" -> list_bytes_validator(w)

(***************************************************************************)
(* Declarations.  One record per declared parameter or model field:        *)
(*   in        the explicit source annotation, "" when there is none       *)
(*   optional  Optional[...]: None is an allowed value                     *)
(*   required  no default was declared                                     *)
(*   regex     the literal between ^ and $ of the declared pattern         *)
(***************************************************************************)
Required(name, type) ==
    [name |-> name, type |-> type, in |-> "", optional |-> FALSE,
     required |-> TRUE, default |-> None, ge |-> None, le |-> None,
     min_length |-> None, max_length |-> None, regex |-> None,
     alias |-> name, embed |-> FALSE]

Default(name, type, default) ==
    [Required(name, type) EXCEPT !.required = FALSE, !.default = default]

Optional(name, type, default) ==
    [Default(name, type, default) EXCEPT !.optional = TRUE]

FieldError(loc, kind, sub) == [loc |-> loc, kind |-> kind, sub |-> sub]

\* Constraint with the pattern matched before the length is measured
Constraint_pattern_first(d, v) ==
    IF Tag(v) \in {"int", "float"} /\ d.ge # None /\ Val(v) < Val(d.ge)
    THEN Fail("constraint_violation", "range")
    ELSE IF Tag(v) \in {"int", "float"} /\ d.le # None /\ Val(v) > Val(d.le)
    THEN Fail("constraint_violation", "range")
    ELSE IF Tag(v) = "str" /\ d.regex # None /\ Val(v) # Val(d.regex)
    THEN Fail("constraint_violation", "pattern")
    ELSE IF Tag(v) = "str" /\ d.min_length # None
            /\ Len(Val(v)) < Val(d.min_length)
    THEN Fail("constraint_violation", "length")
    ELSE IF Tag(v) = "str" /\ d.max_length # None
            /\ Len(Val(v)) > Val(d.max_length)
    THEN Fail("constraint_violation", "length")
    ELSE Ok(v)

\* the first violated constraint of the coerced value v, in the order the
\* validators run: numeric bounds, string length, pattern
Constraint(d, v) ==
    IF Tag(v) \in {"int", "float"} /\ d.ge # None /\ Val(v) < Val(d.ge)
    THEN Fail("constraint_violation", "range")
    ELSE IF Tag(v) \in {"int", "float"} /\ d.le # None /\ Val(v) > Val(d.le)
    THEN Fail("constraint_violation", "range")
    ELSE IF Tag(v) = "str" /\ d.min_length # None
            /\ Len(Val(v)) < Val(d.min_length)
    THEN Fail("constraint_violation", "length")
    ELSE IF Tag(v) = "str" /\ d.max_length # None
            /\ Len(Val(v)) > Val(d.max_length)
    THEN Fail("constraint_violation", "length")
    ELSE IF Tag(v) = "str" /\ d.regex # None /\ Val(v) # Val(d.regex)
    THEN Fail("constraint_violation", "pattern")
    ELSE Ok(v)

\* the constraints are checked on a value that was coerced
Constrained(d, c) == IF c.ok THEN Constraint(d, c.v) ELSE c

\* validation of one present scalar value: None, coercion, constraints
ValidateScalar(d, w) ==
    IF Tag(w) = "None"
    THEN IF d.optional THEN Ok(None) ELSE Fail("type_error", "none")
    ELSE Constrained(d, Coerce(d.type, w))

(***************************************************************************)
(* The declared models (BaseModel subclasses)                              *)
(***************************************************************************)
Item ==
    << Required("name", "str"),
       Optional("description", "str", None),
       Required("price", "float"),
       Optional("tax", "float", None) >>

User ==
    << Required("username", "str"),
       Optional("full_name", "str", None) >>

UserIn ==
    << Required("username", "str"),
       Required("password", "str"),
       Required("email", "EmailStr"),
       Optional("full_name", "str", None) >>

UserOut ==
    << Required("username", "str"),
       Required("email", "EmailStr"),
       Optional("full_name", "str", None) >>

Item2 ==
    << Required("name", "str"),
       Optional("description", "str", None),
       Required("price", "float"),
       Default("tax", "float", PyFloat(105)),
       Default("tags", "List[str]", PyList(<<>>)) >>

ClassNames == {"Item", "User", "UserIn", "UserOut", "Item2"}

Class(cls) ==
    CASE cls = "Item" -> Item
      [] cls = "User" -> User
      [] cls = "UserIn" -> UserIn
      [] cls = "UserOut" -> UserOut
      [] cls = "Item2" -> Item2

\* the concatenation of a sequence of sequences
RECURSIVE Flatten(_)
Flatten(ss) == IF Len(ss) = 0 THEN <<>> ELSE Head(ss) \o Flatten(Tail(ss))

\* the value of a valid scalar, or its one error at loc
Located(loc, r) ==
    IF r.ok THEN [errs |-> <<>>, v |-> r.v]
    ELSE [errs |-> <<FieldError(loc, r.kind, r.sub)>>, v |-> None]

\* a parameter or field with no value on the wire: missing when required,
\* else its default
Absent(d, loc) ==
    IF d.required
    THEN [errs |-> <<FieldError(loc, "missing", "")>>, v |-> None]
    ELSE [errs |-> <<>>, v |-> d.default]

\* one field of a model built from the mapping doc
FieldResult(d, doc) ==
    IF d.name \notin DOMAIN doc THEN Absent(d, <<d.name>>)
    ELSE Located(<<d.name>>, ValidateScalar(d, doc[d.name]))

\* the instance made of the results of its fields, with the names of the
\* fields that were explicitly set; or the errors, in declared order
Instance(cls, fields, set, results, errs) ==
    [errs |-> errs,
     v |-> IF errs = <<>>
           THEN PyModel(cls,
                        [n \in {fields[i].name : i \in 1..Len(fields)} |->
                            results[CHOOSE i \in 1..Len(fields) :
                                        fields[i].name = n].v],
                        {fields[i].name : i \in 1..Len(fields)} \cap set)
           ELSE None]

Results(cls, fields, set, results) ==
    Instance(cls, fields, set, results,
             Flatten([i \in 1..Len(fields) |-> results[i].errs]))

\* cls(**doc): every field is validated, none stops the others
ValidateFields(cls, fields, doc) ==
    Results(cls, fields, DOMAIN doc,
            [i \in 1..Len(fields) |-> FieldResult(fields[i], doc)])

ValidateModel(cls, w) ==
    IF Tag(w) # "dict"
    THEN [errs |-> <<FieldError(<<>>, "type_error", "dict")>>, v |-> None]
    ELSE ValidateFields(cls, Class(cls), Val(w))

Prefix(loc, errs) ==
    [i \in 1..Len(errs) |-> [errs[i] EXCEPT !.loc = loc \o errs[i].loc]]

Prefixed(loc, r) == [errs |-> Prefix(loc, r.errs), v |-> r.v]

\* validation of one present value against a declaration of any type
Validate(d, w, loc) ==
    IF d.type \in ClassNames
    THEN IF Tag(w) = "None" /\ d.optional
         THEN [errs |-> <<>>, v |-> None]
         ELSE Prefixed(loc, ValidateModel(d.type, w))
    ELSE Located(loc, ValidateScalar(d, w))

(***************************************************************************)
(* Registration of a route: the source of each parameter is decided here,  *)
(* once, from the path template and the declared type.                     *)
(***************************************************************************)
\* ResolveSource that does not look at the path template
ResolveSource_without_path(d, path_vars) ==
    IF d.in # "" THEN d.in
    ELSE IF d.type \in ClassNames THEN "body"
    ELSE "query"

ResolveSource(d, path_vars) ==
    IF d.name \in path_vars THEN "path"
    ELSE IF d.in # "" THEN d.in
    ELSE IF d.type \in ClassNames THEN "body"
    ELSE "query"

Resolved(params, path_vars) ==
    [i \in 1..Len(params) |->
        [params[i] EXCEPT !.in = ResolveSource(params[i], path_vars)]]

InSource(params, src) == SelectSeq(params, LAMBDA d : d.in = src)

\* whether the body parameters are read under their names: always when
\* there are several of them, else when the single one asks for it
BodyEmbedded(body_params) ==
    Len(body_params) # 1 \/ body_params[1].embed

\* the route as the router stores it
Register(decl) ==
    LET params == Resolved(decl.params, decl.path_vars)
        embed == BodyEmbedded(InSource(params, "body"))
    IN  [handler |-> decl.handler,
         method |-> decl.method,
         path |-> decl.path,
         params |-> [i \in 1..Len(params) |->
                        IF params[i].in = "body"
                        THEN [params[i] EXCEPT !.embed = embed]
                        ELSE params[i]],
         response_model |-> decl.response_model,
         exclude_unset |-> decl.exclude_unset]

(***************************************************************************)
(* Binding of one request to the parameters of a registered route          *)
(***************************************************************************)
\* no value on the wire
Missing == <<"missing">>

\* a body that is no JSON object, where one is needed to look the value up
NoObject == <<"no object">>

Location(d) ==
    IF d.in = "body" /\ ~d.embed THEN <<"body">> ELSE <<d.in, d.alias>>

\* the wire value of a parameter: a path segment, the query value under the
\* wire name, the whole body or the member of it under the wire name
\* the value of a parameter in a form: every value sent under its name for
\* a list, else the last one
FormValue(d, form) ==
    IF d.alias \notin DOMAIN form THEN Missing
    ELSE IF d.type \in {"List[bytes]", "List[str]"} THEN PyList(form[d.alias])
    ELSE form[d.alias][Len(form[d.alias])]

Extract(d, req) ==
    CASE d.in = "path" -> PyStr(req.path_params[d.alias])
      [] d.in = "query" ->
            IF d.alias \in DOMAIN req.query THEN PyStr(req.query[d.alias])
            ELSE Missing
      [] d.in = "body" ->
            IF ~d.embed THEN IF req.body = None THEN Missing ELSE req.body
            ELSE IF req.body = None THEN Missing
            ELSE IF Tag(req.body) = "form" THEN FormValue(d, Val(req.body))
            ELSE IF Tag(req.body) # "dict" THEN NoObject
            ELSE IF Get(Val(req.body), d.alias) = None THEN Missing
            ELSE Val(req.body)[d.alias]

BindWire(d, w, loc) ==
    IF w = Missing THEN Absent(d, loc)
    ELSE IF w = NoObject
    THEN [errs |-> <<FieldError(loc, "missing", "")>>, v |-> None]
    ELSE Validate(d, w, loc)

\* the value of one parameter and its errors
BindParam(d, req) == BindWire(d, Extract(d, req), Location(d))

\* the order of the errors: the path parameters, then the query, then the body
Ordered(params) ==
    InSource(params, "path") \o InSource(params, "query")
    \o InSource(params, "body")

\* Collected that stops at the first parameter that has errors
Collected_fail_fast(ordered, results) ==
    LET bad == {i \in 1..Len(ordered) : results[i].errs # <<>>}
    IN  [errs |-> IF bad = {} THEN <<>>
                  ELSE results[CHOOSE i \in bad : \A j \in bad : i <= j].errs,
         values |-> [n \in {ordered[i].name : i \in 1..Len(ordered)} |->
                        results[CHOOSE i \in 1..Len(ordered) :
                                    ordered[i].name = n].v]]

Collected(ordered, results) ==
    [errs |-> Flatten([i \in 1..Len(ordered) |-> results[i].errs]),
     values |-> [n \in {ordered[i].name : i \in 1..Len(ordered)} |->
                    results[CHOOSE i \in 1..Len(ordered) : ordered[i].name = n].v]]

Collect(ordered, req) ==
    Collected(ordered, [i \in 1..Len(ordered) |-> BindParam(ordered[i], req)])

\* every parameter is bound, and the errors of all of them are collected
Bind(route, req) == Collect(Ordered(route.params), req)

(***************************************************************************)
(* The routes, as their decorators and signatures declare them             *)
(***************************************************************************)
Route(handler, method, path, path_vars, params) ==
    [handler |-> handler, method |-> method, path |-> path,
     path_vars |-> path_vars, params |-> params,
     response_model |-> "", exclude_unset |-> FALSE]

root_route == Route("root", "GET", "/", {}, <<>>)

read_item_route ==
    Route("read_item", "GET", "/items/{item_id}", {"item_id"},
          << Required("item_id", "str"),
             Optional("q", "str", None),
             Default("short", "bool", PyBool(FALSE)) >>)

read_user_item2_route ==
    Route("read_user_item2", "GET", "/items2/{item_id}", {"item_id"},
          << Required("item_id", "str"),
             Required("needy", "str"),
             Default("skip", "int", PyInt(0)),
             Optional("limit", "int", None) >>)

read_user_item_route ==
    Route("read_user_item", "GET", "/users/{user_id}/items/{item_id}",
          {"user_id", "item_id"},
          << Required("user_id", "int"),
             Required("item_id", "str"),
             Optional("q", "str", None),
             Default("short", "bool", PyBool(FALSE)) >>)

create_item3_route ==
    Route("create_item3", "PUT", "/items3/{item_id}", {"item_id"},
          << Required("item_id", "int"),
             Required("item", "Item"),
             Optional("q", "str", None) >>)

read_items_route ==
    Route("read_items", "GET", "/items/", {},
          << [Optional("q", "str", None) EXCEPT
                 !.in = "query",
                 !.min_length = PyInt(3),
                 !.max_length = PyInt(50),
                 !.regex = PyStr(<<"f", "i", "x", "e", "d",
                                   "q", "u", "e", "r", "y">>),
                 !.alias = "item-query"] >>)

\* update_item5_route with gt=0, lt=1000 in the place of ge=0, le=1000
update_item5_route_exclusive ==
    Route("update_item5", "PUT", "/items5/{item_id}", {"item_id"},
          << [Required("item_id", "int") EXCEPT
                 !.in = "path", !.ge = PyInt(1), !.le = PyInt(999)],
             Optional("q", "str", None),
             Optional("item", "Item", None) >>)

update_item5_route ==
    Route("update_item5", "PUT", "/items5/{item_id}", {"item_id"},
          << [Required("item_id", "int") EXCEPT
                 !.in = "path", !.ge = PyInt(0), !.le = PyInt(1000)],
             Optional("q", "str", None),
             Optional("item", "Item", None) >>)

update_item6_route ==
    Route("update_item6", "PUT", "/items6/{item_id}", {"item_id"},
          << Required("item_id", "int"),
             Required("item", "Item"),
             Required("user", "User") >>)

update_item7_route ==
    Route("update_item7", "PUT", "/items7/{item_id}", {"item_id"},
          << Required("item_id", "int"),
             Required("item", "Item"),
             Required("user", "User"),
             [Required("importance", "int") EXCEPT !.in = "body"] >>)

\* update_item8_route with Body(...) in the place of Body(..., embed=True)
update_item8_route_flat ==
    Route("update_item8", "PUT", "/items8/{item_id}", {"item_id"},
          << Required("item_id", "int"),
             [Required("item", "Item") EXCEPT !.in = "body"] >>)

update_item8_route ==
    Route("update_item8", "PUT", "/items8/{item_id}", {"item_id"},
          << Required("item_id", "int"),
             [Required("item", "Item") EXCEPT
                 !.in = "body", !.embed = TRUE] >>)

\* create_user_route without response_model=UserOut
create_user_route_unshaped ==
    Route("create_user", "POST", "/user/", {},
          << Required("user", "UserIn") >>)

create_user_route ==
    [Route("create_user", "POST", "/user/", {},
           << Required("user", "UserIn") >>)
       EXCEPT !.response_model = "UserOut"]

read_item13_route ==
    [Route("read_item13", "GET", "/items13/{item_id}", {"item_id"},
           << Required("item_id", "str") >>)
       EXCEPT !.response_model = "Item2", !.exclude_unset = TRUE]

\* File(...) is a body parameter read from the form under its name
create_file_route ==
    Route("create_file", "POST", "/files/", {},
          << [Required("file", "bytes") EXCEPT !.in = "body", !.embed = TRUE] >>)

create_files_route ==
    Route("create_files", "POST", "/files/", {},
          << [Required("files", "List[bytes]") EXCEPT
                 !.in = "body", !.embed = TRUE] >>)

main_route == Route("main", "GET", "/", {}, <<>>)

read_item_header_route ==
    Route("read_item_header", "GET", "/items-header/{item_id}", {"item_id"},
          << Required("item_id", "str") >>)

read_unicorn_route ==
    Route("read_unicorn", "GET", "/unicorns/{name}", {"name"},
          << Required("name", "str") >>)

read_item15_route ==
    Route("read_item15", "GET", "/items15/{item_id}", {"item_id"},
          << Required("item_id", "int") >>)

read_item16_route ==
    Route("read_item16", "GET", "/items16/{item_id}", {"item_id"},
          << Required("item_id", "int") >>)

update_item20_route ==
    Route("update_item20", "PUT", "/items20/{id}", {"id"},
          << Required("id", "str"),
             Required("item", "Item") >>)

(***************************************************************************)
(* The two bindings of the global name items                               *)
(***************************************************************************)
foo == <<"f", "o", "o">>

bar == <<"b", "a", "r">>

baz == <<"b", "a", "z">>

items_response_model ==
    PyDict(
        foo :> PyDict(("name" :> PyText("Foo")) @@ ("price" :> PyFloat(502)))
     @@ bar :> PyDict(("name" :> PyText("Bar"))
                   @@ ("description" :> PyText("The bartenders"))
                   @@ ("price" :> PyInt(62))
                   @@ ("tax" :> PyFloat(202)))
     @@ baz :> PyDict(("name" :> PyText("Baz"))
                   @@ ("description" :> None)
                   @@ ("price" :> PyFloat(502))
                   @@ ("tax" :> PyFloat(105))
                   @@ ("tags" :> PyList(<<>>))))

items_handling_errors == PyDict(foo :> PyText("The Foo Wrestlers"))

(***************************************************************************)
(* Exceptions and the exception handlers                                   *)
(***************************************************************************)
Exc(kind, status_code, detail, headers, name, errs) ==
    [kind |-> kind, status_code |-> status_code, detail |-> detail,
     headers |-> headers, name |-> name, errs |-> errs]

NoExc == Exc("", 0, None, {}, None, <<>>)

HTTPException(status_code, detail, headers) ==
    Exc("HTTPException", status_code, detail, headers, None, <<>>)

UnicornException(name) == Exc("UnicornException", 0, None, {}, name, <<>>)

RequestValidationError(errs) ==
    Exc("RequestValidationError", 0, None, {}, None, errs)

ValidationError(errs) == Exc("ValidationError", 0, None, {}, None, errs)

KeyError == Exc("KeyError", 0, None, {}, None, <<>>)

\* the classes of an exception, most specific first
Mro(kind) ==
    CASE kind = "HTTPException" ->
            <<"HTTPException", "StarletteHTTPException", "Exception">>
      [] kind = "UnicornException" -> <<"UnicornException", "Exception">>
      [] kind = "RequestValidationError" ->
            <<"RequestValidationError", "ValidationError", "ValueError",
              "Exception">>
      [] kind = "ValidationError" ->
            <<"ValidationError", "ValueError", "Exception">>
      [] kind = "KeyError" -> <<"KeyError", "LookupError", "Exception">>
      [] kind = "StarletteHTTPException" ->
            <<"StarletteHTTPException", "Exception">>

Response(status_code, media_type, content, headers) ==
    [status_code |-> status_code, media_type |-> media_type,
     content |-> content, headers |-> headers]

NoResponse == Response(0, "", None, {})

unicorn_exception_handler(exc) ==
    Response(418, "application/json",
             PyDict("message" :>
                 <<"Oops! ", exc.name, " did something. There goes a rainbow...">>),
             {})

\* validation_exception_handler answering as the default handler does
validation_exception_handler_422(exc) ==
    Response(422, "application/json", PyDict("detail" :> exc.errs), {})

\* str(exc) of a validation error is a rendering of its errors
validation_exception_handler(exc) ==
    Response(400, "text/plain", <<"str", exc.errs>>, {})

http_exception_handler(exc) ==
    Response(exc.status_code, "text/plain", exc.detail, {})

\* the handlers the application is constructed with
default_http_exception_handler(exc) ==
    Response(exc.status_code, "application/json",
             PyDict("detail" :> exc.detail), exc.headers)

request_validation_exception_handler(exc) ==
    Response(422, "application/json", PyDict("detail" :> exc.errs), {})

\* an exception no handler is registered for
ServerError == Response(500, "text/plain", PyText("Internal Server Error"), {})

RunExceptionHandler(h, exc) ==
    CASE h = "unicorn_exception_handler" -> unicorn_exception_handler(exc)
      [] h = "validation_exception_handler" -> validation_exception_handler(exc)
      [] h = "http_exception_handler" -> http_exception_handler(exc)
      [] h = "default_http_exception_handler" ->
            default_http_exception_handler(exc)
      [] h = "request_validation_exception_handler" ->
            request_validation_exception_handler(exc)

\* the handler of the first class of the exception that has one
LookupHandler(table, kind) ==
    LET mro == Mro(kind)
        hits == {i \in 1..Len(mro) : mro[i] \in DOMAIN table}
    IN  IF hits = {} THEN ""
        ELSE table[mro[CHOOSE i \in hits : \A j \in hits : i <= j]]

HandleException(table, exc) ==
    LET h == LookupHandler(table, exc.kind)
    IN  IF h = "" THEN ServerError ELSE RunExceptionHandler(h, exc)

(***************************************************************************)
(* The bodies of the route handlers.  a maps each parameter to its bound   *)
(* value; the result is a returned value or a raised exception, and the    *)
(* value of fake_db the handler leaves.                                    *)
(***************************************************************************)
Return(v) == [raised |-> FALSE, v |-> v, exc |-> NoExc, fake_db |-> fake_db]

Raise(exc) == [raised |-> TRUE, v |-> None, exc |-> exc, fake_db |-> fake_db]

\* d.update(e)
Update(d, e) == e @@ d

LongDescription ==
    PyText("This is an amazing item that has a long description")

root(a) == Return(PyDict("message" :> PyText("Hello World")))

read_item(a) ==
    LET item == "item_id" :> a["item_id"]
        item1 == IF Truthy(a["q"]) THEN Update(item, "q" :> a["q"]) ELSE item
        item2 == IF ~Truthy(a["short"])
                 THEN Update(item1, "description" :> LongDescription)
                 ELSE item1
    IN  Return(PyDict(item2))

read_user_item2(a) ==
    Return(PyDict(("item_id" :> a["item_id"]) @@ ("needy" :> a["needy"])))

read_user_item(a) ==
    LET item == ("item_id" :> a["item_id"]) @@ ("owner_id" :> a["user_id"])
        item1 == IF Truthy(a["q"]) THEN Update(item, "q" :> a["q"]) ELSE item
        item2 == IF ~Truthy(a["short"])
                 THEN Update(item1, "description" :> LongDescription)
                 ELSE item1
    IN  Return(PyDict(item2))

\* item.dict(): every field of the instance
ModelDict(m) == m[3]

create_item3(a) ==
    LET result == Update("item_id" :> a["item_id"], ModelDict(a["item"]))
    IN  Return(PyDict(IF Truthy(a["q"]) THEN Update(result, "q" :> a["q"])
                      ELSE result))

read_items(a) ==
    LET results == "items" :> PyList(<<PyDict("item_id" :> PyText("Foo")),
                                       PyDict("item_id" :> PyText("Bar"))>>)
    IN  Return(PyDict(IF Truthy(a["q"]) THEN Update(results, "q" :> a["q"])
                      ELSE results))

update_item5(a) ==
    LET results == "item_id" :> a["item_id"]
        results1 == IF Truthy(a["q"]) THEN Update(results, "q" :> a["q"])
                    ELSE results
        results2 == IF Truthy(a["item"])
                    THEN Update(results1, "item" :> a["item"])
                    ELSE results1
    IN  Return(PyDict(results2))

update_item6(a) ==
    Return(PyDict(("item_id" :> a["item_id"]) @@ ("item" :> a["item"])
                  @@ ("user" :> a["user"])))

update_item7(a) ==
    Return(PyDict(("item_id" :> a["item_id"]) @@ ("item" :> a["item"])
                  @@ ("user" :> a["user"])
                  @@ ("importance" :> a["importance"])))

update_item8(a) ==
    Return(PyDict(("item_id" :> a["item_id"]) @@ ("item" :> a["item"])))

create_user(a) == Return(a["user"])

read_item13(a) ==
    IF Val(a["item_id"]) \in DOMAIN Val(items)
    THEN Return(Val(items)[Val(a["item_id"])])
    ELSE Raise(KeyError)

create_file(a) == Return(PyDict("file_size" :> PyInt(Len(Val(a["file"])))))

create_files(a) ==
    Return(PyDict("file_sizes" :>
              PyList([i \in 1..Len(Val(a["files"])) |->
                         PyInt(Len(Val(Val(a["files"])[i])))])))

main(a) ==
    Return(<<"response", Response(200, "text/html", PyText("<body>...</body>"), {})>>)

read_item_header(a) ==
    IF Val(a["item_id"]) \notin DOMAIN Val(items)
    THEN Raise(HTTPException(404, PyText("Item not found"), {"X-Error"}))
    ELSE Return(PyDict("item" :> Val(items)[Val(a["item_id"])]))

read_unicorn(a) ==
    IF Val(a["name"]) = <<"y", "o", "l", "o">>
    THEN Raise(UnicornException(a["name"]))
    ELSE Return(PyDict("unicorn_name" :> a["name"]))

read_item15(a) ==
    IF Val(a["item_id"]) = 3
    THEN Raise(HTTPException(418, PyText("Nope! I don't like 3."), {}))
    ELSE Return(PyDict("item_id" :> a["item_id"]))

read_item16(a) ==
    IF Val(a["item_id"]) = 3
    THEN Raise(HTTPException(418, PyText("Nope! I don't like 3."), {}))
    ELSE Return(PyDict("item_id" :> a["item_id"]))

\* the encoding of one value that holds no further containers
Encode1(v) == IF Tag(v) = "model" THEN PyDict(ModelDict(v)) ELSE v

jsonable_encoder(v) ==
    IF Tag(v) = "dict"
    THEN PyDict([k \in DOMAIN Val(v) |-> Encode1(Val(v)[k])])
    ELSE Encode1(v)

update_item20(a) ==
    LET json_compatible_item_data == jsonable_encoder(a["item"])
    IN  [Return(None) EXCEPT
            !.fake_db = PyDict(Update(Val(fake_db),
                            Val(a["id"]) :> json_compatible_item_data))]

RunHandler(h, a) ==
    CASE h = "root" -> root(a)
      [] h = "read_item" -> read_item(a)
      [] h = "read_user_item2" -> read_user_item2(a)
      [] h = "read_user_item" -> read_user_item(a)
      [] h = "create_item3" -> create_item3(a)
      [] h = "read_items" -> read_items(a)
      [] h = "update_item5" -> update_item5(a)
      [] h = "update_item6" -> update_item6(a)
      [] h = "update_item7" -> update_item7(a)
      [] h = "update_item8" -> update_item8(a)
      [] h = "create_user" -> create_user(a)
      [] h = "read_item13" -> read_item13(a)
      [] h = "create_file" -> create_file(a)
      [] h = "create_files" -> create_files(a)
      [] h = "main" -> main(a)
      [] h = "read_item_header" -> read_item_header(a)
      [] h = "read_unicorn" -> read_unicorn(a)
      [] h = "read_item15" -> read_item15(a)
      [] h = "read_item16" -> read_item16(a)
      [] h = "update_item20" -> update_item20(a)

(***************************************************************************)
(* Response shaping                                                        *)
(***************************************************************************)
Restrict(f, S) == [k \in S |-> f[k]]

\* what the response model is applied to: the fields of a returned instance
\* (with exclude_unset, those explicitly set), or the returned value itself
Prepared(route, v) ==
    IF Tag(v) = "model"
    THEN PyDict(IF route.exclude_unset THEN Restrict(ModelDict(v), v[4])
                ELSE ModelDict(v))
    ELSE v

\* the response made of a value that satisfies the response model
Shaped(route, r) ==
    IF r.errs # <<>>
    THEN [errs |-> Prefix(<<"response">>, r.errs), response |-> NoResponse]
    ELSE [errs |-> <<>>,
          response |->
             Response(200, "application/json",
                      PyDict(IF route.exclude_unset
                             THEN Restrict(ModelDict(r.v), r.v[4])
                             ELSE ModelDict(r.v)),
                      {})]

\* the returned value is validated against the declared response model and
\* reduced to its fields; with exclude_unset, to the fields explicitly set
serialize_response(route, v) ==
    IF Tag(v) = "response" THEN [errs |-> <<>>, response |-> Val(v)]
    ELSE IF route.response_model = ""
    THEN [errs |-> <<>>,
          response |-> Response(200, "application/json", jsonable_encoder(v), {})]
    ELSE Shaped(route, ValidateModel(route.response_model, Prepared(route, v)))

(***************************************************************************)
(* One request through the application                                     *)
(***************************************************************************)
Request(method, path, path_params, query, body) ==
    [method |-> method, path |-> path, path_params |-> path_params,
     query |-> query, body |-> body]

NoRequest == Request("", "", <<>>, <<>>, None)

NoCall == [handler |-> "", args |-> <<>>]

\* the routes are tried in the order of their registration
Matching(table, req) ==
    {i \in 1..Len(table) :
        table[i].method = req.method /\ table[i].path = req.path}

First(S) == CHOOSE i \in S : \A j \in S : i <= j

\* Dispatch where the route registered last is taken
Dispatch_last_wins(table, req) ==
    table[CHOOSE i \in Matching(table, req) :
              \A j \in Matching(table, req) : j <= i]

Dispatch(table, req) == table[First(Matching(table, req))]

Outcome(errs, c, resp, db) ==
    [errors |-> errs, call |-> c, response |-> resp, fake_db |-> db]

NotFound == Exc("StarletteHTTPException", 404, PyText("Not Found"), {}, None, <<>>)

\* the returned value became a response, or a response validation error
Returned(c, r, out) ==
    IF out.errs # <<>>
    THEN Outcome(<<>>, c,
                 HandleException(exception_handlers, ValidationError(out.errs)),
                 r.fake_db)
    ELSE Outcome(<<>>, c, out.response, r.fake_db)

\* the handler has run: what it raised goes to the exception handlers, what
\* it returned is shaped into the response
Ran(route, c, r) ==
    IF r.raised
    THEN Outcome(<<>>, c, HandleException(exception_handlers, r.exc), r.fake_db)
    ELSE Returned(c, r, serialize_response(route, r.v))

\* a request that does not bind never reaches the handler; one that binds
\* reaches it with the bound arguments
Bound(route, b) ==
    IF b.errs # <<>>
    THEN Outcome(b.errs, NoCall,
                 HandleException(exception_handlers,
                                 RequestValidationError(b.errs)),
                 fake_db)
    ELSE Ran(route, [handler |-> route.handler, args |-> b.values],
             RunHandler(route.handler, b.values))

HandleRoute(route, req) == Bound(route, Bind(route, req))

Handle(req) ==
    IF Matching(routes, req) = {}
    THEN Outcome(<<>>, NoCall, HandleException(exception_handlers, NotFound),
                 fake_db)
    ELSE HandleRoute(Dispatch(routes, req), req)

(***************************************************************************)
(* The module-level statements, in source order                            *)
(***************************************************************************)
AddRoute(decl) == [op |-> "route", decl |-> decl]

AddExceptionHandler(cls, h) == [op |-> "exception_handler", cls |-> cls, handler |-> h]

Assign(name, v) == [op |-> "assign", name |-> name, v |-> v]

Statements ==
    << AddRoute(root_route),
       AddRoute(read_item_route),
       AddRoute(read_user_item2_route),
       AddRoute(read_user_item_route),
       AddRoute(create_item3_route),
       AddRoute(read_items_route),
       AddRoute(update_item5_route),
       AddRoute(update_item6_route),
       AddRoute(update_item7_route),
       AddRoute(update_item8_route),
       AddRoute(create_user_route),
       Assign("items", items_response_model),
       AddRoute(read_item13_route),
       AddRoute(create_file_route),
       AddRoute(create_files_route),
       AddRoute(main_route),
       Assign("items", items_handling_errors),
       AddRoute(read_item_header_route),
       AddExceptionHandler("UnicornException", "unicorn_exception_handler"),
       AddRoute(read_unicorn_route),
       AddExceptionHandler("RequestValidationError", "validation_exception_handler"),
       AddRoute(read_item15_route),
       AddExceptionHandler("StarletteHTTPException", "http_exception_handler"),
       AddRoute(read_item16_route),
       Assign("fake_db", PyDict(EmptyDict)),
       AddRoute(update_item20_route) >>

Loaded == pc > Len(Statements)

\* app = FastAPI(): no routes, and the two handlers every application has
Init ==
    /\ pc = 1
    /\ routes = <<>>
    /\ exception_handlers =
          ("StarletteHTTPException" :> "default_http_exception_handler")
       @@ ("RequestValidationError" :> "request_validation_exception_handler")
    /\ items = None
    /\ fake_db = None
    /\ stage = "idle"
    /\ request = NoRequest
    /\ errors = <<>>
    /\ call = NoCall
    /\ response = NoResponse

\* @app.get(...), @app.put(...), @app.post(...)
add_api_route ==
    /\ ~Loaded
    /\ Statements[pc].op = "route"
    /\ routes' = Append(routes, Register(Statements[pc].decl))
    /\ pc' = pc + 1
    /\ UNCHANGED <<exception_handlers, items, fake_db,
                   stage, request, errors, call, response>>

\* add_exception_handler where the first registration for a class stands
add_exception_handler_first_wins ==
    /\ ~Loaded
    /\ Statements[pc].op = "exception_handler"
    /\ exception_handlers' =
          exception_handlers @@ (Statements[pc].cls :> Statements[pc].handler)
    /\ pc' = pc + 1
    /\ UNCHANGED <<routes, items, fake_db,
                   stage, request, errors, call, response>>

\* @app.exception_handler(cls): the last registration for a class stands
add_exception_handler ==
    /\ ~Loaded
    /\ Statements[pc].op = "exception_handler"
    /\ exception_handlers' =
          (Statements[pc].cls :> Statements[pc].handler) @@ exception_handlers
    /\ pc' = pc + 1
    /\ UNCHANGED <<routes, items, fake_db,
                   stage, request, errors, call, response>>

\* items = {...}: the name is bound anew
assign_items ==
    /\ ~Loaded
    /\ Statements[pc].op = "assign"
    /\ Statements[pc].name = "items"
    /\ items' = Statements[pc].v
    /\ pc' = pc + 1
    /\ UNCHANGED <<routes, exception_handlers, fake_db,
                   stage, request, errors, call, response>>

\* fake_db = {}
assign_fake_db ==
    /\ ~Loaded
    /\ Statements[pc].op = "assign"
    /\ Statements[pc].name = "fake_db"
    /\ fake_db' = Statements[pc].v
    /\ pc' = pc + 1
    /\ UNCHANGED <<routes, exception_handlers, items,
                   stage, request, errors, call, response>>

\* a request arrives once the module is loaded and no other is in progress
Receive(req) ==
    /\ Loaded
    /\ stage = "idle"
    /\ stage' = "received"
    /\ request' = req
    /\ UNCHANGED <<pc, routes, exception_handlers, items, fake_db,
                   errors, call, response>>

Handled(out) ==
    /\ errors' = out.errors
    /\ call' = out.call
    /\ response' = out.response
    /\ fake_db' = out.fake_db

\* the application handles the request: dispatch, binding, the handler,
\* response shaping and exception handling
app ==
    /\ stage = "received"
    /\ stage' = "handled"
    /\ Handled(Handle(request))
    /\ UNCHANGED <<pc, routes, exception_handlers, items, request>>

\* the response is sent: the request, its binding result and the response
\* are discarded, and what the handler stored stays
Respond ==
    /\ stage = "handled"
    /\ stage' = "idle"
    /\ request' = NoRequest
    /\ errors' = <<>>
    /\ call' = NoCall
    /\ response' = NoResponse
    /\ UNCHANGED <<pc, routes, exception_handlers, items, fake_db>>

(***************************************************************************)
(* The requests of the model                                               *)
(***************************************************************************)
\* a query string: the wire names that are present, with their raw values
NoQuery == <<>>

BoolLiterals ==
    {<<"1">>,
     <<"T", "r", "u", "e">>,
     <<"t", "r", "u", "e">>,
     <<"T", "R", "U", "E">>,
     <<"o", "n">>,
     <<"O", "N">>,
     <<"y", "e", "s">>,
     <<"Y", "e", "s">>,
     <<"t">>,
     <<"T">>,
     <<"y">>,
     <<"Y">>,
     <<"0">>,
     <<"F", "a", "l", "s", "e">>,
     <<"f", "a", "l", "s", "e">>,
     <<"o", "f", "f">>,
     <<"O", "F", "F">>,
     <<"n", "o">>,
     <<"N", "o">>,
     <<"f">>,
     <<"n">>,
     <<"N">>,
     <<"m", "a", "y", "b", "e">>,
     <<"2">>,
     <<"t", "r", "u">>,
     <<"y", "e", "s", "s">>,
     <<"o", "u", "i">>,
     <<"e", "n", "a", "b", "l", "e", "d">>}

x == <<"x">>

\* JSON documents for an Item
ItemGood == PyDict(("name" :> PyStr(foo)) @@ ("price" :> PyFloat(354)))

ItemConverted ==
    PyDict(("name" :> PyStr(bar)) @@ ("price" :> PyStr(<<"3", "5", ".", "4">>)))

ItemInvalid ==
    PyDict(("name" :> PyStr(baz)) @@ ("price" :> PyStr(<<"t", "h", "i", "r", "t", "y">>)))

ItemNoPrice == PyDict("name" :> PyStr(foo))

ItemEmpty == PyDict(EmptyDict)

\* an Item document that also carries the keys item_id and q
ItemWithExtras ==
    PyDict(("name" :> PyStr(foo)) @@ ("price" :> PyFloat(354))
           @@ ("item_id" :> PyInt(9)) @@ ("q" :> PyStr(baz)))

ItemDocs == {ItemGood, ItemConverted, ItemInvalid, ItemNoPrice, ItemEmpty,
             ItemWithExtras}

UserGood == PyDict(("username" :> PyStr(bar)) @@ ("full_name" :> PyStr(baz)))

UserEmpty == PyDict(EmptyDict)

Req_root == Receive(Request("GET", "/", <<>>, NoQuery, None))

Req_read_item ==
    \E q \in {NoQuery, "q" :> x},
       short \in {NoQuery} \cup {"short" :> b : b \in BoolLiterals} :
        Receive(Request("GET", "/items/{item_id}", "item_id" :> foo, q @@ short, None))

Req_read_user_item2 ==
    \E needy \in {NoQuery, "needy" :> foo},
       skip \in {NoQuery, "skip" :> <<"0">>, "skip" :> x},
       limit \in {NoQuery, "limit" :> <<"5">>, "limit" :> x} :
        Receive(Request("GET", "/items2/{item_id}", "item_id" :> foo,
                      needy @@ skip @@ limit, None))

Req_read_user_item ==
    \E user_id \in {<<"7">>, <<"a", "b", "c">>, <<"-", "4">>},
       q \in {NoQuery, "q" :> x, "user_id" :> <<"8">>},
       short \in {NoQuery, "short" :> <<"t", "r", "u", "e">>,
                  "short" :> <<"m", "a", "y", "b", "e">>} :
        Receive(Request("GET", "/users/{user_id}/items/{item_id}",
                      ("user_id" :> user_id) @@ ("item_id" :> foo),
                      q @@ short, None))

Req_create_item3 ==
    \E item_id \in {<<"5">>, x},
       q \in {NoQuery, "q" :> x, "item_id" :> <<"8">>, "item_id" :> x,
              ("q" :> x) @@ ("name" :> bar)},
       body \in ItemDocs \cup {None} :
        Receive(Request("PUT", "/items3/{item_id}", "item_id" :> item_id, q, body))

Req_read_items ==
    \E q \in {NoQuery,
              "item-query" :> <<"f", "i", "x", "e", "d", "q", "u", "e", "r", "y">>,
              "item-query" :> <<"a", "b">>,
              "item-query" :> <<"a", "b", "c">>,
              "item-query" :> <<>>,
              "item-query" :> Rep("x", 51),
              "q" :> <<"a", "b">>} :
        Receive(Request("GET", "/items/", <<>>, q, None))

Req_update_item5 ==
    \E item_id \in {IntChars(n) : n \in (0 - MaxBelow)..MaxItemId} \cup {x},
       body \in {None, ItemInvalid} :
        Receive(Request("PUT", "/items5/{item_id}", "item_id" :> item_id,
                      NoQuery, body))

Req_update_item6 ==
    \E item_id \in {<<"5">>, x},
       body \in {None, ItemGood,
                 PyDict(("item" :> ItemGood) @@ ("user" :> UserGood)),
                 PyDict("item" :> ItemGood),
                 PyDict(("item" :> ItemInvalid) @@ ("user" :> UserEmpty))} :
        Receive(Request("PUT", "/items6/{item_id}", "item_id" :> item_id,
                      NoQuery, body))

Req_update_item7 ==
    \E item_id \in {<<"5">>, x},
       importance \in {EmptyDict, "importance" :> PyInt(5),
                       "importance" :> PyStr(x)},
       body \in {EmptyDict,
                 ("item" :> ItemGood) @@ ("user" :> UserGood),
                 ("item" :> ItemNoPrice) @@ ("user" :> UserEmpty)} :
        Receive(Request("PUT", "/items7/{item_id}", "item_id" :> item_id,
                      NoQuery, PyDict(importance @@ body)))

Req_update_item8 ==
    \E item_id \in {<<"5">>, x},
       body \in {None, ItemGood, PyDict("item" :> ItemGood),
                 PyDict("item" :> ItemInvalid),
                 PyDict(("item" :> ItemGood) @@ ("name" :> PyStr(bar)))} :
        Receive(Request("PUT", "/items8/{item_id}", "item_id" :> item_id,
                      NoQuery, body))

Passwords == {<<"p", "w", "1">>, <<"s", "e", "c", "r", "e", "t">>}

Req_create_user ==
    \E username \in {"username" :> PyStr(foo), "username" :> PyStr(bar)},
       password \in {EmptyDict} \cup {"password" :> PyStr(p) : p \in Passwords},
       email \in {"email" :> PyStr(<<"a", "@", "b", ".", "c">>),
                  "email" :> PyStr(<<"a", "b", "c">>)},
       full_name \in {EmptyDict, "full_name" :> PyStr(baz), "full_name" :> None} :
        Receive(Request("POST", "/user/", <<>>, NoQuery,
                      PyDict(username @@ password @@ email @@ full_name)))

Req_read_item13 ==
    \E item_id \in {foo, bar, baz, x} :
        Receive(Request("GET", "/items13/{item_id}", "item_id" :> item_id,
                      NoQuery, None))

\* multipart requests: the parts file and files, each sent or not
Req_create_file ==
    \E file \in {EmptyDict, "file" :> <<PyBytes(foo)>>,
                 "file" :> <<PyBytes(x), PyBytes(bar)>>},
       files \in {EmptyDict, "files" :> <<PyBytes(foo)>>,
                  "files" :> <<PyBytes(x), PyBytes(<<>>)>>} :
        Receive(Request("POST", "/files/", <<>>, NoQuery, PyForm(file @@ files)))

Req_read_item_header ==
    \E item_id \in {foo, bar} :
        Receive(Request("GET", "/items-header/{item_id}", "item_id" :> item_id,
                      NoQuery, None))

Req_read_unicorn ==
    \E name \in {<<"y", "o", "l", "o">>, foo} :
        Receive(Request("GET", "/unicorns/{name}", "name" :> name, NoQuery, None))

Req_read_item15 ==
    \E item_id \in {<<"3">>, <<"4">>, x} :
        Receive(Request("GET", "/items15/{item_id}", "item_id" :> item_id,
                      NoQuery, None))

Req_read_item16 ==
    \E item_id \in {<<"3">>, <<"4">>, x} :
        Receive(Request("GET", "/items16/{item_id}", "item_id" :> item_id,
                      NoQuery, None))

Req_update_item20 ==
    \E id \in {foo, bar},
       body \in {None, ItemGood, ItemInvalid} :
        Receive(Request("PUT", "/items20/{id}", "id" :> id, NoQuery, body))

Next ==
    \/ add_api_route
    \/ add_exception_handler
    \/ assign_items
    \/ assign_fake_db
    \/ Req_root
    \/ Req_read_item
    \/ Req_read_user_item2
    \/ Req_read_user_item
    \/ Req_create_item3
    \/ Req_read_items
    \/ Req_update_item5
    \/ Req_update_item6
    \/ Req_update_item7
    \/ Req_update_item8
    \/ Req_create_user
    \/ Req_read_item13
    \/ Req_create_file
    \/ Req_read_item_header
    \/ Req_read_unicorn
    \/ Req_read_item15
    \/ Req_read_item16
    \/ Req_update_item20
    \/ app
    \/ Respond

Spec == Init /\ [][Next]_vars

(***************************************************************************)
(* Properties                                                              *)
(***************************************************************************)
\* a request has been handled and its outcome is in the state
Served == stage = "handled" /\ Matching(routes, request) # {}

ServedAt(path) == Served /\ request.path = path

\* the errors reported at one location
ErrorsAt(loc) == {k \in 1..Len(errors) : errors[k].loc = loc}

InErrors(e) == \E k \in 1..Len(errors) : errors[k] = e

\* the literals that are read as a boolean, in lower case
TrueLiterals ==
    {<<"t", "r", "u", "e">>, <<"1">>, <<"y", "e", "s">>, <<"o", "n">>,
     <<"t">>, <<"y">>}

FalseLiterals ==
    {<<"f", "a", "l", "s", "e">>, <<"0">>, <<"n", "o">>, <<"o", "f", "f">>,
     <<"f">>, <<"n">>}

C2_ErrNeverInvokes ==
    Served =>
        /\ errors # <<>> =>
              /\ call = NoCall
              /\ response = Response(400, "text/plain", <<"str", errors>>, {})
        /\ errors = <<>> =>
              /\ call.handler = Dispatch(routes, request).handler
              /\ DOMAIN call.args =
                    {Dispatch(routes, request).params[i].name :
                        i \in 1..Len(Dispatch(routes, request).params)}
              /\ \A i \in 1..Len(Dispatch(routes, request).params) :
                    call.args[Dispatch(routes, request).params[i].name] =
                        BindParam(Dispatch(routes, request).params[i], request).v
        /\ ( /\ request.path = "/users/{user_id}/items/{item_id}"
             /\ request.path_params["user_id"] = <<"7">>
             /\ request.query = "short" :> <<"t", "r", "u", "e">> )
           => call = [handler |-> "read_user_item",
                      args |-> ("user_id" :> PyInt(7))
                            @@ ("item_id" :> PyStr(foo))
                            @@ ("q" :> None)
                            @@ ("short" :> PyBool(TRUE))]
        /\ (request.path = "/items20/{id}" /\ errors = <<>>)
           => /\ request.path_params["id"] \in DOMAIN Val(fake_db)
              /\ Val(fake_db)[request.path_params["id"]] =
                    PyDict(ModelDict(call.args["item"]))

\* an earlier request to PUT /items20/foo has invoked the handler, which
\* stored the item; a request to PUT /items20/bar with an invalid item has
\* been answered with status 400, no handler was invoked, nothing was stored
C2_Witness ==
    /\ ServedAt("/items20/{id}")
    /\ request.path_params["id"] = bar
    /\ request.body = ItemInvalid
    /\ errors # <<>>
    /\ call = NoCall
    /\ response.status_code = 400
    /\ DOMAIN Val(fake_db) = {foo}

\* the source a registered route reads the parameter name from
SourceOf(handler, name) ==
    LET r == CHOOSE i \in 1..Len(routes) : routes[i].handler = handler
        d == CHOOSE j \in 1..Len(routes[r].params) :
                 routes[r].params[j].name = name
    IN  routes[r].params[d].in

Registered(handler) == \E i \in 1..Len(routes) : routes[i].handler = handler

\* the declarations of the routes of the module
Declarations == {Statements[k].decl : k \in {j \in 1..Len(Statements) :
                                              Statements[j].op = "route"}}

\* C3: a parameter without explicit source annotation gets its source at
\* registration: path when its name is a variable of the path template,
\* else body when its type is a model, else query.  A path-named parameter
\* is read from the path whatever the query string and the body hold: on
\* PUT /items3/{item_id} item_id is the path segment, item the body and q
\* the query value, and on PUT /items20/{id} id is the path segment.
C3_SourcePrecedence ==
    /\ \A i \in 1..Len(routes) :
          \A decl \in {c \in Declarations : c.handler = routes[i].handler} :
              \A j \in 1..Len(decl.params) :
                  decl.params[j].in = "" =>
                      routes[i].params[j].in =
                          IF decl.params[j].name \in decl.path_vars THEN "path"
                          ELSE IF decl.params[j].type \in ClassNames THEN "body"
                          ELSE "query"
    /\ Registered("create_item3") =>
          /\ SourceOf("create_item3", "item_id") = "path"
          /\ SourceOf("create_item3", "item") = "body"
          /\ SourceOf("create_item3", "q") = "query"
    /\ Registered("update_item20") =>
          /\ SourceOf("update_item20", "id") = "path"
          /\ SourceOf("update_item20", "item") = "body"
    /\ ServedAt("/items3/{item_id}") =>
          /\ IsIntLiteral(request.path_params["item_id"]) =>
                /\ ErrorsAt(<<"path", "item_id">>) = {}
                /\ ErrorsAt(<<"query", "item_id">>) = {}
                /\ errors = <<>> =>
                      /\ call.args["item_id"] =
                            PyInt(IntValue(request.path_params["item_id"]))
                      /\ call.args["q"] =
                            IF "q" \in DOMAIN request.query
                            THEN PyStr(request.query["q"]) ELSE None
                      /\ Tag(call.args["item"]) = "model"
                      /\ ModelDict(call.args["item"])["name"] =
                            Val(request.body)["name"]
          /\ ~IsIntLiteral(request.path_params["item_id"]) =>
                /\ InErrors(FieldError(<<"path", "item_id">>,
                                       "type_error", "integer"))
                /\ call = NoCall
    /\ (ServedAt("/items20/{id}") /\ errors = <<>>) =>
          call.args["id"] = PyStr(request.path_params["id"])

\* PUT /items3/5?item_id=8 with a body that holds item_id 9 and q has been
\* handled: item_id was read from the path and q was not read from the body
C3_Witness ==
    /\ ServedAt("/items3/{item_id}")
    /\ request.path_params["item_id"] = <<"5">>
    /\ request.query = ("item_id" :> <<"8">>)
    /\ request.body = ItemWithExtras
    /\ call.handler = "create_item3"
    /\ call.args["item_id"] = PyInt(5)
    /\ call.args["q"] = None

\* C4: a field has at most one error per request, the first failing check
\* in the order missing, type, numeric bounds, string length, pattern.  An
\* absent needy on GET /items2/{item_id} gives exactly one error, of kind
\* missing; on GET /items/ a value shorter than 3 or longer than 50 that also
\* does not match ^fixedquery$ gives only the length error, and a value of
\* a valid length that does not match gives only the pattern error.
C4_OneErrorPerField ==
    Served =>
        /\ \A k \in 1..Len(errors) : ErrorsAt(errors[k].loc) = {k}
        /\ (request.path = "/items2/{item_id}"
            /\ "needy" \notin DOMAIN request.query)
           => /\ Cardinality(ErrorsAt(<<"query", "needy">>)) = 1
              /\ InErrors(FieldError(<<"query", "needy">>, "missing", ""))
        /\ (request.path = "/items/" /\ "item-query" \in DOMAIN request.query)
           => errors =
                 IF Len(request.query["item-query"]) < 3
                    \/ Len(request.query["item-query"]) > 50
                 THEN <<FieldError(<<"query", "item-query">>,
                                   "constraint_violation", "length")>>
                 ELSE IF request.query["item-query"] #
                            <<"f", "i", "x", "e", "d", "q", "u", "e", "r", "y">>
                 THEN <<FieldError(<<"query", "item-query">>,
                                   "constraint_violation", "pattern")>>
                 ELSE <<>>
        /\ (request.path = "/items5/{item_id}"
            /\ ~IsIntLiteral(request.path_params["item_id"]))
           => InErrors(FieldError(<<"path", "item_id">>, "type_error", "integer"))

\* GET /items/?item-query=ab, too short and no match of the pattern, has
\* been handled with the length error alone
C4_Witness ==
    /\ ServedAt("/items/")
    /\ "item-query" \in DOMAIN request.query
    /\ request.query["item-query"] = <<"a", "b">>
    /\ Len(errors) = 1
    /\ errors[1].sub = "length"

\* C5: on PUT /items5/{item_id} every integer item_id in 0..1000 binds, and
\* every integer below 0 or above 1000 gives exactly one error at item_id,
\* a range violation, and update_item5 is not called.
C5_RangeInclusive ==
    (ServedAt("/items5/{item_id}")
     /\ IsIntLiteral(request.path_params["item_id"])) =>
        /\ (IntValue(request.path_params["item_id"]) >= 0
            /\ IntValue(request.path_params["item_id"]) <= 1000)
           => /\ ErrorsAt(<<"path", "item_id">>) = {}
              /\ request.body = None =>
                    /\ errors = <<>>
                    /\ call.handler = "update_item5"
                    /\ call.args["item_id"] =
                          PyInt(IntValue(request.path_params["item_id"]))
                    /\ response.status_code = 200
        /\ (IntValue(request.path_params["item_id"]) < 0
            \/ IntValue(request.path_params["item_id"]) > 1000)
           => /\ Cardinality(ErrorsAt(<<"path", "item_id">>)) = 1
              /\ InErrors(FieldError(<<"path", "item_id">>,
                                     "constraint_violation", "range"))
              /\ call = NoCall

\* PUT /items5/1000 has been handled by update_item5, and so the upper
\* bound binds
C5_Witness ==
    /\ ServedAt("/items5/{item_id}")
    /\ request.path_params["item_id"] = <<"1", "0", "0", "0">>
    /\ errors = <<>>
    /\ call.handler = "update_item5"
    /\ call.args["item_id"] = PyInt(1000)

\* the value of short in the request, when the query string has one
HasShort == "short" \in DOMAIN request.query

\* the keys of the JSON object of the response
ResponseKeys == DOMAIN Val(response.content)

\* the answer of read_item when short is read as b
ReadItemAnswers(b) ==
    /\ errors = <<>>
    /\ call.handler = "read_item"
    /\ call.args["short"] = PyBool(b)
    /\ response.status_code = 200
    /\ ("description" \in ResponseKeys) = ~b

\* the request was refused with a type error at short and nothing was bound
ShortRefused ==
    /\ errors = <<FieldError(<<"query", "short">>, "type_error", "bool")>>
    /\ call = NoCall

\* C6 (as amended): a raw string short on GET /items/{item_id} binds to true
\* when it is, in any letter case, one of true, 1, yes, on, t, y, and to
\* false when it is one of false, 0, no, off, f, n; every other literal
\* gives a type error and no value is bound.  When short is true the
\* response of read_item has no description key; when it is false or
\* absent (default False) it has one.
C6_BoolCoercion ==
    ServedAt("/items/{item_id}") =>
        /\ (HasShort /\ Lower(request.query["short"]) \in TrueLiterals)
           => ReadItemAnswers(TRUE)
        /\ (HasShort /\ Lower(request.query["short"]) \in FalseLiterals)
           => ReadItemAnswers(FALSE)
        /\ (HasShort /\ Lower(request.query["short"])
                            \notin TrueLiterals \cup FalseLiterals)
           => ShortRefused
        /\ ~HasShort => ReadItemAnswers(FALSE)

\* GET /items/foo?short=Yes has been answered without description
C6_Witness ==
    /\ ServedAt("/items/{item_id}")
    /\ HasShort
    /\ request.query["short"] = <<"Y", "e", "s">>
    /\ call.args["short"] = PyBool(TRUE)
    /\ "description" \notin ResponseKeys

\* C6 as stated: only true, 1, yes, on (any case) bind to true and only
\* false, 0, no, off to false; every other literal is refused with a type
\* error.
C6_AsStated ==
    ServedAt("/items/{item_id}") =>
        /\ (HasShort /\ Lower(request.query["short"]) \in
                {<<"t", "r", "u", "e">>, <<"1">>, <<"y", "e", "s">>, <<"o", "n">>})
           => ReadItemAnswers(TRUE)
        /\ (HasShort /\ Lower(request.query["short"]) \in
                {<<"f", "a", "l", "s", "e">>, <<"0">>, <<"n", "o">>,
                 <<"o", "f", "f">>})
           => ReadItemAnswers(FALSE)
        /\ (HasShort /\ Lower(request.query["short"]) \notin
                {<<"t", "r", "u", "e">>, <<"1">>, <<"y", "e", "s">>, <<"o", "n">>,
                 <<"f", "a", "l", "s", "e">>, <<"0">>, <<"n", "o">>,
                 <<"o", "f", "f">>})
           => ShortRefused
        /\ ~HasShort => ReadItemAnswers(FALSE)

\* the handler registered last for a class among the first n statements,
\* or else the one the application was constructed with
LastRegistered(cls, n) ==
    LET S == {k \in 1..n : /\ Statements[k].op = "exception_handler"
                           /\ Statements[k].cls = cls}
    IN  IF S # {}
        THEN Statements[CHOOSE k \in S : \A j \in S : j <= k].handler
        ELSE IF cls = "StarletteHTTPException"
        THEN "default_http_exception_handler"
        ELSE IF cls = "RequestValidationError"
        THEN "request_validation_exception_handler"
        ELSE ""

yolo == <<"y", "o", "l", "o">>

\* C7: the exception handlers are a table filled at registration in which
\* the last registration for a class stands, and an exception no handler is
\* registered for is answered as a server fault.  GET /unicorns/yolo is
\* answered 418 with the JSON message; the HTTPException of GET /items15/3
\* and /items16/3 (418) and of GET /items-header/{id} with id not in items
\* (404) is answered by http_exception_handler with that status and that
\* detail; the KeyError of read_item13 is answered 500.
C7_LastRegisteredWins ==
    /\ \A cls \in {"UnicornException", "RequestValidationError",
                   "StarletteHTTPException", "HTTPException", "KeyError",
                   "ValidationError", "Exception"} :
          IF LastRegistered(cls, pc - 1) = ""
          THEN cls \notin DOMAIN exception_handlers
          ELSE /\ cls \in DOMAIN exception_handlers
               /\ exception_handlers[cls] = LastRegistered(cls, pc - 1)
    /\ (ServedAt("/unicorns/{name}") /\ request.path_params["name"] = yolo)
       => /\ call.handler = "read_unicorn"
          /\ response =
                Response(418, "application/json",
                         PyDict("message" :>
                             <<"Oops! ", PyStr(yolo),
                               " did something. There goes a rainbow...">>),
                         {})
    /\ (Served /\ request.path \in {"/items15/{item_id}", "/items16/{item_id}"}
        /\ request.path_params["item_id"] = <<"3">>)
       => /\ call.handler \in {"read_item15", "read_item16"}
          /\ response = Response(418, "text/plain",
                                 PyText("Nope! I don't like 3."), {})
    /\ (ServedAt("/items-header/{item_id}")
        /\ request.path_params["item_id"] \notin DOMAIN Val(items))
       => /\ call.handler = "read_item_header"
          /\ response = Response(404, "text/plain", PyText("Item not found"), {})
    /\ (ServedAt("/items13/{item_id}")
        /\ request.path_params["item_id"] \notin DOMAIN Val(items))
       => /\ call.handler = "read_item13"
          /\ response.status_code = 500

\* GET /items15/3 has been answered by http_exception_handler, registered
\* after the handler the application was constructed with
C7_Witness ==
    /\ ServedAt("/items15/{item_id}")
    /\ request.path_params["item_id"] = <<"3">>
    /\ exception_handlers["StarletteHTTPException"] = "http_exception_handler"
    /\ response.status_code = 418
    /\ response.media_type = "text/plain"

\* C8 as stated: GET /items13/foo is answered with exactly name and price,
\* GET /items13/baz with all the fields that were set, defaults included.
C8_ExcludeUnset ==
    ServedAt("/items13/{item_id}") =>
        /\ request.path_params["item_id"] = foo =>
              /\ response.status_code = 200
              /\ Tag(response.content) = "dict"
              /\ ResponseKeys = {"name", "price"}
        /\ request.path_params["item_id"] = baz =>
              /\ response.status_code = 200
              /\ Tag(response.content) = "dict"
              /\ ResponseKeys = {"name", "description", "price", "tax", "tags"}

\* the positions of the route declarations among the statements
RouteStatements == {k \in 1..Len(Statements) : Statements[k].op = "route"}

\* the parameters of a declaration whose type is a model
Composites(decl) ==
    {j \in 1..Len(decl.params) : decl.params[j].type \in ClassNames}

\* a body parameter of the declaration is declared with Body(...) and embed
\* left False: its value is asked for at the top level of the body
FlatteningRequested(decl) ==
    \E j \in 1..Len(decl.params) :
        decl.params[j].in = "body" /\ ~decl.params[j].embed

BodyParams(route) == InSource(route.params, "body")

\* the shapes of the body, per route
BodyShapes ==
    /\ \A i \in 1..Len(routes) :
          Len(BodyParams(routes[i])) >= 2 =>
              \A j \in 1..Len(BodyParams(routes[i])) :
                  Location(BodyParams(routes[i])[j]) =
                      <<"body", BodyParams(routes[i])[j].name>>
    /\ Registered("update_item8") => SourceOf("update_item8", "item") = "body"
    /\ ServedAt("/items6/{item_id}") =>
          /\ request.body = PyDict(("item" :> ItemGood) @@ ("user" :> UserGood))
             => /\ ErrorsAt(<<"body", "item">>) = {}
                /\ ErrorsAt(<<"body", "user">>) = {}
                /\ errors = <<>> =>
                      /\ ModelDict(call.args["item"])["name"] = PyStr(foo)
                      /\ ModelDict(call.args["item"])["price"] = PyFloat(354)
                      /\ ModelDict(call.args["user"])["username"] = PyStr(bar)
          /\ request.body = ItemGood
             => /\ InErrors(FieldError(<<"body", "item">>, "missing", ""))
                /\ InErrors(FieldError(<<"body", "user">>, "missing", ""))
                /\ call = NoCall
    /\ ServedAt("/items8/{item_id}") =>
          /\ request.body = PyDict("item" :> ItemGood)
             => /\ \A k \in 1..Len(errors) : errors[k].loc[1] # "body"
                /\ errors = <<>> =>
                      ModelDict(call.args["item"])["name"] = PyStr(foo)
          /\ request.body = ItemGood
             => /\ InErrors(FieldError(<<"body", "item">>, "missing", ""))
                /\ call = NoCall
    /\ (Served /\ request.path \in {"/items3/{item_id}", "/items20/{id}"}
        /\ request.body = ItemGood)
       => /\ \A k \in 1..Len(errors) : errors[k].loc[1] # "body"
          /\ errors = <<>> =>
                /\ ModelDict(call.args["item"])["name"] = PyStr(foo)
                /\ ModelDict(call.args["item"])["price"] = PyFloat(354)

WithPassword(req, p) ==
    [req EXCEPT !.body = PyDict(("password" :> PyStr(p)) @@ Val(req.body))]

\* C10: the response of POST /user/ has no other fields than username,
\* email and full_name, and never the password: it carries the username and
\* the email of the request and is the same whatever the password is.
C10_NoPasswordInResponse ==
    (ServedAt("/user/") /\ errors = <<>>) =>
        /\ call.handler = "create_user"
        /\ ModelDict(call.args["user"])["password"] =
              Val(request.body)["password"]
        /\ response.status_code = 200
        /\ Tag(response.content) = "dict"
        /\ ResponseKeys \subseteq {"username", "email", "full_name"}
        /\ Val(response.content)["username"] = Val(request.body)["username"]
        /\ Val(response.content)["email"] = Val(request.body)["email"]
        /\ \A k \in ResponseKeys :
              Val(response.content)[k] # Val(request.body)["password"]
        /\ \A p \in Passwords :
              Handle(WithPassword(request, p)).response = response

\* POST /user/ with a valid user, password secret, has been answered 200
C10_Witness ==
    /\ ServedAt("/user/")
    /\ errors = <<>>
    /\ Val(request.body)["password"] = PyStr(<<"s", "e", "c", "r", "e", "t">>)
    /\ call.handler = "create_user"
    /\ response.status_code = 200

\* the request in progress is a GET / or a POST /files/ that has been handled
ServedRoot == ServedAt("/") /\ request.method = "GET"

ServedFiles == ServedAt("/files/") /\ request.method = "POST"

\* C11 (as amended): dispatch takes the route registered first.  GET / is
\* registered by root and then by main, POST /files/ by create_file and then
\* by create_files: main and create_files are never called, whatever the
\* requests were; every GET / calls root, once; every POST /files/ is bound
\* to the parameters of create_file, which is called once when the form has
\* a part named file and not at all when it has none, the request being
\* refused for the missing file also when it carries the parts create_files
\* asks for.
C11_FirstRegisteredWins ==
    /\ call.handler \notin {"main", "create_files"}
    /\ ServedRoot =>
          /\ call = [handler |-> "root", args |-> <<>>]
          /\ response = Response(200, "application/json",
                                 PyDict("message" :> PyText("Hello World")), {})
    /\ ServedFiles =>
          IF "file" \in DOMAIN Val(request.body)
          THEN /\ errors = <<>>
               /\ call.handler = "create_file"
               /\ call.args["file"] =
                     Val(request.body)["file"][Len(Val(request.body)["file"])]
               /\ response.status_code = 200
               /\ Val(response.content) =
                     ("file_size" :> PyInt(Len(Val(call.args["file"]))))
          ELSE /\ errors = <<FieldError(<<"body", "file">>, "missing", "")>>
               /\ call = NoCall
               /\ response.status_code = 400

\* a POST /files/ that carries both the part file and the part files, with
\* create_file and create_files both registered, was handled by create_file
C11_Witness ==
    /\ ServedFiles
    /\ Registered("create_file")
    /\ Registered("create_files")
    /\ DOMAIN Val(request.body) = {"file", "files"}
    /\ call.handler = "create_file"
    /\ response.status_code = 200

\* C11 as stated: main and create_files are never called, and every GET /
\* calls root and every POST /files/ calls create_file.
C11_AsStated ==
    /\ call.handler \notin {"main", "create_files"}
    /\ ServedRoot => call.handler = "root"
    /\ ServedFiles => call.handler = "create_file"

=============================================================================
